---- MODULE Spec2Model ----
(***************************************************************************)
(* Model of finans.py: a SQLite-backed income/expense ledger with a        *)
(* summary report, two interest formulas and a text menu.                  *)
(*                                                                         *)
(* Numbers.  Money amounts are modelled on the integer-valued inputs, on   *)
(* which the REAL column and Python floats add exactly.  The interest      *)
(* functions return a value rounded to two decimals; the model carries     *)
(* that value in hundredths (cents) and computes it on exact rationals.    *)
(*                                                                         *)
(* Storage.  A connection works on a private copy of the database (work)   *)
(* next to the committed file contents (base); commit publishes work,      *)
(* close drops what was not committed.  A storage fault (file cannot be    *)
(* opened, statement fails, commit fails) is chosen by the environment.    *)
(* A call that raises after connecting never reaches conn.close(); the     *)
(* model counts the connections left open that way in open_conns.          *)
(*                                                                         *)
(* Callers.  The module is either run as a script, where main() drives the *)
(* functions and an uncaught exception ends the process, or imported,      *)
(* where a program calls the functions directly with arguments of its own. *)
(***************************************************************************)
EXTENDS Integers, Sequences, FiniteSets, TLC

\* ---- bounds ----
MaxRecords == 2
MaxAmount == 2
MaxNow == 1
TicksPerSecond == 2
MaxOpen == 1

\* ---- input domains ----
Kinds == {"income", "expense"}
TypeInputs == Kinds \cup {"unknown"}
Amounts == 0..MaxAmount
\* the category is a label the code only stores; one value stands for all
Categories == {"rent"}
Nows == 0..MaxNow
Principals == {100}
Rates == {5, 100}
Times == {1}
Periods == {-1, 0, 1, 2}
ConnFaults == {"none", "connect", "execute"}
WriteFaults == ConnFaults \cup {"commit"}

VARIABLES mode, pc, table, records, seq, open_conns, call

vars == <<mode, pc, table, records, seq, open_conns, call>>

\* ---- Python values ----
None == [isNone |-> TRUE, v |-> 0]
Num(x) == [isNone |-> FALSE, v |-> x]

\* ---- the database file and a connection to it ----
Db(t, rs, s) == [table |-> t, records |-> rs, seq |-> s]
CurDb == Db(table, records, seq)

Connect(d) == [base |-> d, work |-> d]

\* faulty variant: the commit is lost
CommitMut(c) == c
\* conn.commit()
Commit(c) == [c EXCEPT !.base = c.work]

\* conn.close(): what was not committed is rolled back
Close(c) == c.base

\* datetime.now().strftime("%Y-%m-%d %H:%M:%S"): the clock reading cut to whole seconds
Strftime(now) == now \div TicksPerSecond

\* faulty variant: the table is dropped and created anew
ExecCreateMut(c) ==
  [base |-> Db(TRUE, <<>>, 0), work |-> Db(TRUE, <<>>, 0)]
\* CREATE TABLE IF NOT EXISTS transactions (...); sqlite3 opens no implicit
\* transaction for DDL, so the table is in the file at once
ExecCreate(c) ==
  IF c.work.table THEN c
  ELSE [base |-> [c.base EXCEPT !.table = TRUE], work |-> [c.work EXCEPT !.table = TRUE]]

\* faulty variant: the last id is handed out again
NextIdMut(d) == d.seq
\* id INTEGER PRIMARY KEY AUTOINCREMENT: one more than the largest id ever handed out
NextId(d) == d.seq + 1

\* faulty variant: the new row replaces the stored ones
ExecInsertMut(c, t_type, amount, category, date) ==
  LET id == NextId(c.work)
      row == [id |-> id, type |-> t_type, amount |-> amount, category |-> category, date |-> date]
  IN [c EXCEPT !.work.records = <<row>>, !.work.seq = id]
\* INSERT INTO transactions (type, amount, category, date) VALUES (?, ?, ?, ?)
ExecInsert(c, t_type, amount, category, date) ==
  LET id == NextId(c.work)
      row == [id |-> id, type |-> t_type, amount |-> amount, category |-> category, date |-> date]
  IN [c EXCEPT !.work.records = Append(@, row), !.work.seq = id]

\* SELECT SUM(amount) FROM transactions WHERE type=<kind>; fetchone()[0]
\* NULL when no row matches, else the sum taken in rowid order
RECURSIVE SumRows(_, _, _)
SumRows(rows, i, acc) ==
  IF i > Len(rows) THEN acc ELSE SumRows(rows, i + 1, acc + rows[i].amount)

\* faulty variant: the WHERE clause is missing
SelectSumMut(rows, kind) ==
  IF rows = <<>> THEN None ELSE Num(SumRows(rows, 1, 0))
\* the query with its WHERE clause
SelectSum(rows, kind) ==
  LET sel == SelectSeq(rows, LAMBDA r : r.type = kind)
  IN IF sel = <<>> THEN None ELSE Num(SumRows(sel, 1, 0))

\* <value> or 0
Or0(x) == IF x.isNone \/ x.v = 0 THEN 0 ELSE x.v

\* faulty variant: the expense query selects type='income'
TotalsCopyPaste(rows) ==
  LET ti == Or0(SelectSum(rows, "income"))
      te == Or0(SelectSum(rows, "income"))
  IN [total_income |-> ti, total_expense |-> te, balance |-> ti - te]
\* faulty variant: balance adds the expense
TotalsPlus(rows) ==
  LET ti == Or0(SelectSum(rows, "income"))
      te == Or0(SelectSum(rows, "expense"))
  IN [total_income |-> ti, total_expense |-> te, balance |-> ti + te]
\* total_income, total_expense, balance as show_summary computes them
Totals(rows) ==
  LET ti == Or0(SelectSum(rows, "income"))
      te == Or0(SelectSum(rows, "expense"))
  IN [total_income |-> ti, total_expense |-> te, balance |-> ti - te]

\* ---- outcome of one call: new file contents, exception, return value,
\* ---- what it printed, connections it left open
NoOutput == <<>>
Raised(d, exc, open) == [db |-> d, exc |-> exc, ret |-> None, out |-> NoOutput, open |-> open]
Returned(d, ret, out) == [db |-> d, exc |-> "none", ret |-> ret, out |-> out, open |-> 0]

init_db_run(d, f) ==
  IF f = "connect" THEN Raised(d, "OperationalError", 0)
  ELSE LET c0 == Connect(d) IN
    IF f = "execute" THEN Raised(c0.base, "OperationalError", 1)
    ELSE Returned(Close(Commit(ExecCreate(c0))), None, NoOutput)

add_transaction_run(d, t_type, amount, category, now, f) ==
  IF f = "connect" THEN Raised(d, "OperationalError", 0)
  ELSE LET c0 == Connect(d) IN
    IF f = "execute" \/ ~c0.work.table THEN Raised(c0.base, "OperationalError", 1)
    ELSE LET c1 == ExecInsert(c0, t_type, amount, category, Strftime(now)) IN
      IF f = "commit" THEN Raised(c1.base, "OperationalError", 1)
      ELSE Returned(Close(Commit(c1)), None, NoOutput)

show_summary_run(d, f) ==
  IF f = "connect" THEN Raised(d, "OperationalError", 0)
  ELSE LET c0 == Connect(d) IN
    IF f = "execute" \/ ~c0.work.table THEN Raised(c0.base, "OperationalError", 1)
    ELSE Returned(Close(c0), None, Totals(c0.work.records))

\* ---- exact arithmetic for the interest formulas ----
Abs(x) == IF x < 0 THEN 0 - x ELSE x

RECURSIVE Gcd(_, _)
Gcd(a, b) == IF b = 0 THEN a ELSE Gcd(b, a % b)

RECURSIVE Pow(_, _)
Pow(b, e) == IF e = 0 THEN 1 ELSE b * Pow(b, e - 1)

\* num/den in lowest terms with a positive denominator
Frac(num, den) ==
  LET g == Gcd(Abs(num), Abs(den))
      s == IF den < 0 THEN 0 - 1 ELSE 1
  IN [num |-> s * (num \div g), den |-> s * (den \div g)]

\* round(amount, 2), the result in hundredths: nearest, ties to even
Round2(num, den) ==
  LET n100 == 100 * num
      q == n100 \div den
      r == n100 - q * den
  IN IF 2 * r < den THEN q
     ELSE IF 2 * r > den THEN q + 1
     ELSE IF q % 2 = 0 THEN q ELSE q + 1

\* principal * (1 + (rate/100) * time), rounded
simple_interest_run(principal, rate, time) ==
  [exc |-> "none", ret |-> Num(Round2(principal * (100 + rate * time), 100))]

\* faulty variant: n = 0 is taken as n = 1
PeriodicBaseMut(rate, n) ==
  LET m == IF n = 0 THEN 1 ELSE n
  IN [zerodiv |-> FALSE, num |-> 100 * m + rate, den |-> 100 * m]
\* 1 + (rate/100)/n as a fraction; dividing by n = 0 raises
PeriodicBase(rate, n) ==
  IF n = 0 THEN [zerodiv |-> TRUE, num |-> 0, den |-> 1]
  ELSE [zerodiv |-> FALSE, num |-> 100 * n + rate, den |-> 100 * n]

\* principal * ((1 + (rate/100)/n) ** (n * time)), rounded
compound_interest_run(principal, rate, time, n) ==
  LET b == PeriodicBase(rate, n)
      e == n * time
  IN IF b.zerodiv THEN [exc |-> "ZeroDivisionError", ret |-> None]
     ELSE IF e < 0 /\ b.num = 0 THEN [exc |-> "ZeroDivisionError", ret |-> None]
     ELSE LET f == IF e < 0 THEN Frac(b.den, b.num) ELSE Frac(b.num, b.den)
              k == Abs(e)
          IN [exc |-> "none", ret |-> Num(Round2(principal * Pow(f.num, k), Pow(f.den, k)))]

\* ---- state after construction: the file does not exist yet; the module is
\* ---- either run as a script (main) or imported and called directly
Init ==
  /\ mode \in {"main", "import"}
  /\ pc = IF mode = "main" THEN "start" ELSE "imported"
  /\ table = FALSE
  /\ records = <<>>
  /\ seq = 0
  /\ open_conns = 0
  /\ call = [op |-> "none", args |-> <<>>, exc |-> "none", ret |-> None, out |-> NoOutput]

\* a store call took effect; open_conns counts the connections that calls
\* left open, capped by MaxOpen
Effect(op, args, o) ==
  /\ o.open = 0 \/ open_conns < MaxOpen
  /\ table' = o.db.table
  /\ records' = o.db.records
  /\ seq' = o.db.seq
  /\ open_conns' = open_conns + o.open
  /\ call' = [op |-> op, args |-> args, exc |-> o.exc, ret |-> o.ret, out |-> o.out]

\* a call that does not touch the store
NoStore(op, args, exc, ret) ==
  /\ UNCHANGED <<table, records, seq, open_conns>>
  /\ call' = [op |-> op, args |-> args, exc |-> exc, ret |-> ret, out |-> NoOutput]

\* an uncaught exception ends the script
AfterCall(exc) == IF exc = "none" THEN "menu" ELSE "crashed"

\* ---- main(): the script ----
main_start ==
  /\ mode = "main" /\ pc = "start"
  /\ \E f \in ConnFaults :
       LET o == init_db_run(CurDb, f) IN
       /\ Effect("init_db", <<>>, o)
       /\ pc' = AfterCall(o.exc)
  /\ UNCHANGED mode

choice_1 ==
  /\ mode = "main" /\ pc = "menu" /\ Len(records) < MaxRecords
  /\ \E amount \in Amounts, category \in Categories, now \in Nows, f \in WriteFaults :
       LET o == add_transaction_run(CurDb, "income", amount, category, now, f) IN
       /\ Effect("add_transaction", <<"income", amount, category>>, o)
       /\ pc' = AfterCall(o.exc)
  /\ UNCHANGED mode

choice_2 ==
  /\ mode = "main" /\ pc = "menu" /\ Len(records) < MaxRecords
  /\ \E amount \in Amounts, category \in Categories, now \in Nows, f \in WriteFaults :
       LET o == add_transaction_run(CurDb, "expense", amount, category, now, f) IN
       /\ Effect("add_transaction", <<"expense", amount, category>>, o)
       /\ pc' = AfterCall(o.exc)
  /\ UNCHANGED mode

choice_3 ==
  /\ mode = "main" /\ pc = "menu"
  /\ \E f \in ConnFaults :
       LET o == show_summary_run(CurDb, f) IN
       /\ Effect("show_summary", <<>>, o)
       /\ pc' = AfterCall(o.exc)
  /\ UNCHANGED mode

choice_4 ==
  /\ mode = "main" /\ pc = "menu"
  /\ \E p \in Principals, r \in Rates, t \in Times :
       LET o == simple_interest_run(p, r, t) IN
       /\ NoStore("simple_interest", <<p, r, t>>, o.exc, o.ret)
       /\ pc' = AfterCall(o.exc)
  /\ UNCHANGED mode

choice_5 ==
  /\ mode = "main" /\ pc = "menu"
  /\ \E p \in Principals, r \in Rates, t \in Times, n \in Periods :
       LET o == compound_interest_run(p, r, t, n) IN
       /\ NoStore("compound_interest", <<p, r, t, n>>, o.exc, o.ret)
       /\ pc' = AfterCall(o.exc)
  /\ UNCHANGED mode

choice_6 ==
  /\ mode = "main" /\ pc = "menu"
  /\ NoStore("exit", <<>>, "none", None)
  /\ pc' = "exited"
  /\ UNCHANGED mode

choice_invalid ==
  /\ mode = "main" /\ pc = "menu"
  /\ NoStore("invalid_choice", <<>>, "none", None)
  /\ pc' = "menu"
  /\ UNCHANGED mode

\* float(input(...)) / int(input(...)) on text that is not a number
bad_number ==
  /\ mode = "main" /\ pc = "menu"
  /\ NoStore("input", <<>>, "ValueError", None)
  /\ pc' = "crashed"
  /\ UNCHANGED mode

\* ---- the functions called by an importing program, which survives their exceptions ----
call_init_db ==
  /\ mode = "import"
  /\ \E f \in ConnFaults :
       /\ Effect("init_db", <<>>, init_db_run(CurDb, f))
  /\ UNCHANGED <<mode, pc>>

call_add_transaction ==
  /\ mode = "import" /\ Len(records) < MaxRecords
  /\ \E t_type \in TypeInputs, amount \in Amounts, category \in Categories,
        now \in Nows, f \in WriteFaults :
       /\ Effect("add_transaction", <<t_type, amount, category>>,
                 add_transaction_run(CurDb, t_type, amount, category, now, f))
  /\ UNCHANGED <<mode, pc>>

call_show_summary ==
  /\ mode = "import"
  /\ \E f \in ConnFaults :
       /\ Effect("show_summary", <<>>, show_summary_run(CurDb, f))
  /\ UNCHANGED <<mode, pc>>

call_simple_interest ==
  /\ mode = "import"
  /\ \E p \in Principals, r \in Rates, t \in Times :
       LET o == simple_interest_run(p, r, t) IN
       NoStore("simple_interest", <<p, r, t>>, o.exc, o.ret)
  /\ UNCHANGED <<mode, pc>>

call_compound_interest ==
  /\ mode = "import"
  /\ \E p \in Principals, r \in Rates, t \in Times, n \in Periods :
       LET o == compound_interest_run(p, r, t, n) IN
       NoStore("compound_interest", <<p, r, t, n>>, o.exc, o.ret)
  /\ UNCHANGED <<mode, pc>>

Next ==
  \/ main_start
  \/ choice_1
  \/ choice_2
  \/ choice_3
  \/ choice_4
  \/ choice_5
  \/ choice_6
  \/ choice_invalid
  \/ bad_number
  \/ call_init_db
  \/ call_add_transaction
  \/ call_show_summary
  \/ call_simple_interest
  \/ call_compound_interest

Spec == Init /\ [][Next]_vars

TypeOK ==
  /\ mode \in {"main", "import"}
  /\ pc \in {"start", "menu", "exited", "crashed", "imported"}
  /\ table \in BOOLEAN
  /\ Len(records) <= MaxRecords
  /\ seq \in 0..MaxRecords
  /\ open_conns \in 0..MaxOpen

\* ---- vocabulary of the properties ----
\* the rows of one kind, and the sum of their amounts taken over the set of rows
RowsOfKind(rows, kind) == {i \in DOMAIN rows : rows[i].type = kind}

RECURSIVE SumOver(_, _)
SumOver(rows, S) ==
  IF S = {} THEN 0
  ELSE LET i == CHOOSE x \in S : TRUE IN rows[i].amount + SumOver(rows, S \ {i})

AmountOfKind(rows, kind) == SumOver(rows, RowsOfKind(rows, kind))

\* the aggregate sum of a kind as the summary computes it
Aggregate(rows, kind) ==
  IF kind = "income" THEN Totals(rows).total_income ELSE Totals(rows).total_expense

OtherKind(kind) == IF kind = "income" THEN "expense" ELSE "income"

Appended == call.op = "add_transaction" /\ call.exc = "none"
Summarized == call.op = "show_summary" /\ call.exc = "none"

\* C1: a successful append of kind income or expense raises the aggregate sum
\* of that kind, as the summary computes it, by exactly the amount and leaves
\* the aggregate sum of the other kind as it was.
C1_AppendAddsAmount ==
  [][(call'.op = "add_transaction" /\ call'.exc = "none" /\ call'.args[1] \in Kinds) =>
       LET kind == call'.args[1]
           amount == call'.args[2]
       IN /\ Aggregate(records', kind) = Aggregate(records, kind) + amount
          /\ Aggregate(records', OtherKind(kind)) = Aggregate(records, OtherKind(kind))]_vars

\* an expense of a non-zero amount appended to a store that holds income
C1_Witness ==
  /\ Appended
  /\ call.args[1] = "expense"
  /\ call.args[2] > 0
  /\ AmountOfKind(records, "income") > 0

\* C2: the balance a summary reports is the sum of the stored income amounts
\* minus the sum of the stored expense amounts, and the two totals it reports
\* are those sums.
C2_BalanceIsIncomeMinusExpense ==
  Summarized =>
    /\ call.out.total_income = AmountOfKind(records, "income")
    /\ call.out.total_expense = AmountOfKind(records, "expense")
    /\ call.out.balance = AmountOfKind(records, "income") - AmountOfKind(records, "expense")

\* a summary over a store with both kinds and more expense than income
C2_Witness ==
  /\ Summarized
  /\ AmountOfKind(records, "income") > 0
  /\ AmountOfKind(records, "expense") > AmountOfKind(records, "income")

\* C3 (as claimed): an append whose kind is neither income nor expense fails
\* with InvalidKind, creates no record and leaves both aggregate sums as they
\* were, whenever the storage itself is available.
C3_UnknownKindRejected ==
  [][(call'.op = "add_transaction" /\ call'.args[1] \notin Kinds
        /\ call'.exc # "OperationalError") =>
       /\ call'.exc = "InvalidKind"
       /\ records' = records
       /\ \A k \in Kinds : Aggregate(records', k) = Aggregate(records, k)]_vars

C5_EmptyKindSumsToZero ==
  /\ Summarized =>
       /\ RowsOfKind(records, "income") = {} => call.out.total_income = 0
       /\ RowsOfKind(records, "expense") = {} => call.out.total_expense = 0
       /\ records = <<>> => call.out.balance = 0
  /\ table =>
       LET o == show_summary_run(CurDb, "none")
       IN /\ o.exc = "none"
          /\ \A k \in Kinds : RowsOfKind(records, k) = {} => Aggregate(records, k) = 0

\* a summary over a store that holds income but no expense
C5_Witness ==
  /\ Summarized
  /\ RowsOfKind(records, "expense") = {}
  /\ call.out.total_income > 0

\* C6: init_db on a store whose table exists leaves the table, every record,
\* the id counter and both aggregate sums as they were, and fails only when
\* the storage does.
C6_InitDbIdempotent ==
  [][(call'.op = "init_db" /\ table) =>
       /\ table'
       /\ records' = records
       /\ seq' = seq
       /\ \A k \in Kinds : Aggregate(records', k) = Aggregate(records, k)
       /\ init_db_run(CurDb, "none").exc = "none"
       /\ init_db_run(CurDb, "none").db = CurDb]_vars

\* init_db returned normally on a store that already held a record
C6_Witness ==
  /\ call.op = "init_db"
  /\ call.exc = "none"
  /\ AmountOfKind(records, "income") > 0

\* C7: stored ids are pairwise distinct and increase with insertion order;
\* a stored record keeps its id, and a new record's id is greater than every
\* id stored before.
C7_IdsUniqueIncreasing ==
  /\ [](\A i, j \in DOMAIN records : i < j => records[i].id < records[j].id)
  /\ [][/\ \A i \in DOMAIN records :
             i \in DOMAIN records' /\ records'[i].id = records[i].id
        /\ \A j \in DOMAIN records' \ DOMAIN records :
             \A i \in DOMAIN records : records'[j].id > records[i].id]_vars

\* two records are stored
C7_Witness == Appended /\ Len(records) >= 2

\* C8: a successful append adds exactly one record after the stored ones and
\* leaves them as they were; every other step leaves the records as they were.
C8_AppendOnly ==
  [][/\ (call'.op = "add_transaction" /\ call'.exc = "none") =>
          /\ Len(records') = Len(records) + 1
          /\ SubSeq(records', 1, Len(records)) = records
     /\ ~(call'.op = "add_transaction" /\ call'.exc = "none") => records' = records]_vars

\* a record was appended to a store that already held one of another kind and amount
C8_Witness ==
  /\ Appended
  /\ Len(records) >= 2
  /\ records[1].type # records[Len(records)].type
  /\ records[1].amount # records[Len(records)].amount

C10_NoConnectionLeftOpen == open_conns = 0

====
